---- MODULE Spec2Model ----
(***************************************************************************)
(* A model of the bounded function queue (function_queue.c) and of the     *)
(* worker pool that drains it (threading_queue.c).                         *)
(*                                                                         *)
(* Every thread is a small state machine whose position pc[t] is a place   *)
(* in the C code.  One step of the model is one access to shared memory    *)
(* (a pthread call, or one read or write of a field of the queue) together *)
(* with the thread-local computation that follows it.                      *)
(***************************************************************************)
EXTENDS Integers, Sequences, FiniteSets, TLC

(* ------------------------------ bounds -------------------------------- *)

\* Largest capacity given to fq_init.
MaxCapacity == 2
\* Number of distinct tagged tasks the client threads may hand to fq_push.
MaxTasks == 3
\* Number of client (producer / harness) threads.
NumClients == 1
\* tq->max_threads: the number of worker threads tq_start tries to spawn.
MaxThreads == 2

(* ----------------------------- constants ------------------------------ *)

\* enum pt_error, by name (the numeric values are not used by the code
\* except that PT_SUCCESS compares equal to 0).
PT_SUCCESS == "PT_SUCCESS"
PT_EPML == "PT_EPML"
PT_EPMTL == "PT_EPMTL"
PT_EPMU == "PT_EPMU"
PT_EFQFULL == "PT_EFQFULL"
PT_EFQEMPTY == "PT_EFQEMPTY"

\* Return codes of the pthread_mutex_* calls.
Ok == "0"
EBUSY == "EBUSY"
EPERM == "EPERM"
EFAULTED == "EFAULTED"

\* A slot or output object holding no task handed to fq_push: storage
\* returned by malloc and not yet written, or an indeterminate value.
NoTask == 0
\* An output object of a client call that the callee has not written.
NoOut == -1
\* No thread (the owner of a free mutex).
NoThread == 0

Clients == 1..NumClients
Workers == (NumClients + 1)..(NumClients + MaxThreads)
Threads == Clients \cup Workers
TaskIds == 1..MaxTasks

QueueOps == {"push", "pop", "peek", "is_empty", "is_full"}

VARIABLES
    \* struct function_queue
    max_elements, front, back, size, elements, mutex,
    \* per thread: position and the locals of the call it is in
    pc, op, block, arg, ret, isflag, out,
    \* struct threading_queue: the workers tq_start has spawned, and those
    \* with a cancellation request of tq_stop pending
    threads, started, cancelreq,
    \* history variables (not read by the program)
    acq, pre, preSize, pushLog, popLog, execCount,
    \* a conventional bounded FIFO run side by side, and what it returned
    \* to each thread (not read by the program)
    ref, refOut

vars == <<max_elements, front, back, size, elements, mutex,
          pc, op, block, arg, ret, isflag, out,
          threads, started, cancelreq,
          acq, pre, preSize, pushLog, popLog, execCount, ref, refOut>>

qfields == <<max_elements, front, back, size, elements>>
pool == <<threads, started, cancelreq>>
hist == <<acq, pre, preSize, ref, refOut>>
logs == <<pushLog, popLog>>

\* The fields of the queue that the lock protects, as one value.
QState == [size |-> size, front |-> front, back |-> back, elements |-> elements]

\* The value of pre[t] while t has made no acquisition attempt.
NoPre == [size |-> 0, front |-> 0, back |-> 0, elements |-> <<>>]

(* ----------------------- the conventional FIFO ------------------------ *)

\* The conventional bounded FIFO of capacity max_elements: head is the
\* slot the next pop takes, tail the slot the next push fills, count the
\* number of tasks held.  Each operation is one atomic step and yields the
\* new queue, the outcome and the value handed back.
NoRef == [ret |-> PT_SUCCESS, val |-> NoOut]

RefPush(r, e) ==
    IF r.count = max_elements
    THEN [ref |-> r, ret |-> PT_EFQFULL, val |-> NoOut]
    ELSE [ref |-> [head |-> r.head,
                   tail |-> (r.tail + 1) % max_elements,
                   count |-> r.count + 1,
                   store |-> [r.store EXCEPT ![r.tail] = e]],
          ret |-> PT_SUCCESS, val |-> NoOut]

RefPop(r) ==
    IF r.count = 0
    THEN [ref |-> r, ret |-> PT_EFQEMPTY, val |-> NoOut]
    ELSE [ref |-> [head |-> (r.head + 1) % max_elements,
                   tail |-> r.tail,
                   count |-> r.count - 1,
                   store |-> r.store],
          ret |-> PT_SUCCESS, val |-> r.store[r.head]]

RefPeek(r) ==
    IF r.count = 0
    THEN [ref |-> r, ret |-> PT_EFQEMPTY, val |-> NoOut]
    ELSE [ref |-> r, ret |-> PT_SUCCESS, val |-> r.store[r.head]]

RefIsEmpty(r) ==
    [ref |-> r, ret |-> PT_SUCCESS, val |-> IF r.count = 0 THEN 1 ELSE 0]

RefIsFull(r) ==
    [ref |-> r, ret |-> PT_SUCCESS,
     val |-> IF r.count = max_elements THEN 1 ELSE 0]

RefApply(o, r, e) ==
    IF o = "push" THEN RefPush(r, e)
    ELSE IF o = "pop" THEN RefPop(r)
    ELSE IF o = "peek" THEN RefPeek(r)
    ELSE IF o = "is_empty" THEN RefIsEmpty(r)
    ELSE RefIsFull(r)

(* ------------------------- the recursive mutex ------------------------ *)

\* A mutex that any thread can take at any time.
MutexFreeForAll(t) == TRUE

\* pthread_mutex_trylock / pthread_mutex_lock can take the mutex: it is
\* free, or (PTHREAD_MUTEX_RECURSIVE) owned by the caller.
MutexFreeFor(t) == mutex.owner \in {NoThread, t}

\* The mutex after t has locked it once more.
MutexLocked(t) == [owner |-> t, cnt |-> mutex.cnt + 1]

\* pthread_mutex_unlock by t: only the owner may unlock.
MutexUnlockCode(t) == IF mutex.owner = t THEN Ok ELSE EPERM

\* A mutex that any thread's unlock call releases, whoever owns it.
MutexUnlockedByAnyone(t) ==
    IF mutex.cnt <= 1 THEN [owner |-> NoThread, cnt |-> 0]
    ELSE [owner |-> mutex.owner, cnt |-> mutex.cnt - 1]

\* A mutex that a worker's unlock calls do not release, so that the
\* worker goes on to its task with the mutex still owned.
MutexKeptByWorker(t) ==
    IF mutex.owner # t \/ t \in Workers THEN mutex
    ELSE IF mutex.cnt = 1 THEN [owner |-> NoThread, cnt |-> 0]
    ELSE [owner |-> t, cnt |-> mutex.cnt - 1]

\* The mutex after t's pthread_mutex_unlock.
MutexUnlocked(t) ==
    IF mutex.owner # t THEN mutex
    ELSE IF mutex.cnt = 1 THEN [owner |-> NoThread, cnt |-> 0]
    ELSE [owner |-> t, cnt |-> mutex.cnt - 1]

\* A failed acquisition reported with one code in both modes.
LockFailCodeSame(b) == PT_EPML

\* The code a failed acquisition is reported with.
LockFailCode(b) == IF b = 0 THEN PT_EPMTL ELSE PT_EPML

(* ------------------------------- Init --------------------------------- *)

Init ==
    /\ max_elements \in 0..MaxCapacity
    /\ front = 0
    /\ back = 0
    /\ size = 0
    /\ elements = [i \in 0..(max_elements - 1) |-> NoTask]
    /\ mutex = [owner |-> NoThread, cnt |-> 0]
    /\ pc = [t \in Threads |-> IF t \in Clients THEN "idle" ELSE "unborn"]
    /\ op = [t \in Threads |-> "none"]
    /\ block = [t \in Threads |-> 0]
    /\ arg = [t \in Threads |-> NoTask]
    /\ ret = [t \in Threads |-> PT_SUCCESS]
    /\ isflag = [t \in Threads |-> 0]
    /\ out = [t \in Threads |-> IF t \in Clients THEN NoOut ELSE NoTask]
    /\ threads = {}
    /\ started = FALSE
    /\ cancelreq = {}
    /\ acq = [t \in Threads |-> "none"]
    /\ pre = [t \in Threads |-> NoPre]
    /\ preSize = [t \in Threads |-> NoOut]
    /\ pushLog = <<>>
    /\ popLog = <<>>
    /\ execCount = [k \in 0..MaxTasks |-> 0]
    /\ ref = [head |-> 0, tail |-> 0, count |-> 0,
              store |-> [i \in 0..(max_elements - 1) |-> NoTask]]
    /\ refOut = [t \in Threads |-> NoRef]

(* --------------------------- helper operators ------------------------- *)

\* elements[i]; an index outside the allocation reads an indeterminate value.
Slot(i) == IF i \in DOMAIN elements THEN elements[i] ELSE NoTask

\* An index that is advanced and never wrapped.
AdvanceNoWrap(i) == i + 1

\* ++i, wrapped to 0 at max_elements (lines 118-119, 159-160, 198-201).
Advance(i) == IF i + 1 = max_elements THEN 0 ELSE i + 1

\* The return code of the lock call made by t (pthread_mutex_lock when
\* block # 0, pthread_mutex_trylock otherwise), as a relation between the
\* code and the mutex before and after.  pthread_mutex_lock does not return
\* while another thread owns the mutex.
LockCall(t, code) ==
    /\ block[t] # 0 => MutexFreeFor(t)
    /\ code = IF MutexFreeFor(t) THEN Ok ELSE EBUSY
    /\ mutex' = IF code = Ok THEN MutexLocked(t) ELSE mutex

\* What a read of a task slot made by t yields: the slot's value, or, when
\* t does not own the mutex (a read racing with a writer), possibly an
\* indeterminate value.
SlotRead(t, i) == IF mutex.owner = t THEN {Slot(i)} ELSE {Slot(i), NoTask}

\* A worker that invokes fqe whatever fq_pop returned.
WorkerInvokesAlways(r) == TRUE

\* A worker that drops every popped entry without invoking it.
WorkerInvokesNever(r) == FALSE

\* get_and_run, lines 34-35: fqe.func(fqe.arg) is invoked if fq_pop
\* returned 0.
WorkerInvokes(r) == r = PT_SUCCESS

\* A fullness test that lets a push into a full queue through.
QueueFullOffByOne == size > max_elements

\* Line 261: q->size == q->max_elements.
QueueFull == size = max_elements

\* An emptiness test that lets a pop from an empty queue through.
QueueEmptyNever == size < 0

\* Line 234: q->size == 0.
QueueEmpty == size = 0

\* The call of thread t goes on at p, with ret = r.
Continue(t, p, r) ==
    /\ pc' = [pc EXCEPT ![t] = p]
    /\ ret' = [ret EXCEPT ![t] = r]
    /\ UNCHANGED <<op, block, arg, execCount>>

\* The call of thread t returns r.  A client keeps the code and drops the
\* rest.  A worker is in get_and_run (lines 34-37): it invokes the task in
\* fqe if r is 0 and goes round the loop otherwise.
Leave(t, r) ==
    /\ ret' = [ret EXCEPT ![t] = r]
    /\ op' = [op EXCEPT ![t] = "none"]
    /\ block' = [block EXCEPT ![t] = 0]
    /\ arg' = [arg EXCEPT ![t] = NoTask]
    /\ isflag' = [isflag EXCEPT ![t] = 0]
    /\ acq' = [acq EXCEPT ![t] = "none"]
    /\ pre' = [pre EXCEPT ![t] = NoPre]
    /\ preSize' = [preSize EXCEPT ![t] = NoOut]
    /\ refOut' = [refOut EXCEPT ![t] = NoRef]
    /\ UNCHANGED ref
    /\ IF t \in Clients
       THEN /\ pc' = [pc EXCEPT ![t] = "idle"]
            /\ out' = [out EXCEPT ![t] = NoOut]
            /\ UNCHANGED execCount
       ELSE /\ pc' = [pc EXCEPT ![t] = IF WorkerInvokes(r) THEN "run" ELSE "yield"]
            /\ execCount' = IF WorkerInvokes(r)
                            THEN [execCount EXCEPT ![out[t]] = @ + 1]
                            ELSE execCount
            /\ UNCHANGED out

\* History: the outcome of the acquisition the operation itself makes
\* first, the count at that moment and, when the mutex was acquired, the
\* queue as it was then.  An operation that acquired the mutex is applied
\* to the conventional FIFO at that moment.
NoteAcq(t, code) ==
    /\ acq' = [acq EXCEPT ![t] = IF code = Ok THEN "ok" ELSE "fail"]
    /\ preSize' = [preSize EXCEPT ![t] = size]
    /\ pre' = [pre EXCEPT ![t] = IF code = Ok THEN QState ELSE NoPre]
    /\ LET r == RefApply(op[t], ref, arg[t])
       IN  IF code = Ok
           THEN /\ ref' = r.ref
                /\ refOut' = [refOut EXCEPT ![t] = [ret |-> r.ret, val |-> r.val]]
           ELSE UNCHANGED <<ref, refOut>>

\* fq_push going on without looking at is_full.
AfterIsFullUntested(o, flag, r, cur) ==
    IF o = "is_full" THEN [pc |-> "return", ret |-> r]
    ELSE [pc |-> "push_size", ret |-> cur]

\* fq_push trying again until the queue is no longer full.
AfterIsFullRetry(o, flag, r, cur) ==
    IF o = "is_full" THEN [pc |-> "return", ret |-> r]
    ELSE IF flag # 0 THEN [pc |-> "isfull_lock", ret |-> cur]
    ELSE [pc |-> "push_size", ret |-> cur]

\* Where fq_is_full returns to, and the caller's ret there: the caller is
\* the client (o = "is_full") or fq_push, which ignores the return value
\* and tests its local is_full (lines 112-115).
AfterIsFull(o, flag, r, cur) ==
    IF o = "is_full" THEN [pc |-> "return", ret |-> r]
    ELSE IF flag # 0 THEN [pc |-> "push_unlock", ret |-> PT_EFQFULL]
    ELSE [pc |-> "push_size", ret |-> cur]

\* Where fq_is_empty returns to: the client, fq_pop (lines 152-156) or
\* fq_peek (lines 193-197).
AfterIsEmpty(o, flag, r, cur) ==
    IF o = "is_empty" THEN [pc |-> "return", ret |-> r]
    ELSE IF flag # 0
         THEN [pc |-> IF o = "pop" THEN "pop_unlock" ELSE "peek_unlock",
               ret |-> PT_EFQEMPTY]
    ELSE [pc |-> IF o = "pop" THEN "pop_size" ELSE "peek_load", ret |-> cur]

\* The return of fq_is_empty or fq_is_full to nxt.
ReturnInner(t, nxt) ==
    IF nxt.pc = "return"
    THEN Leave(t, nxt.ret)
    ELSE Continue(t, nxt.pc, nxt.ret) /\ UNCHANGED <<isflag, out, hist>>

(* ------------------------------- calls -------------------------------- *)

\* The first place of each function.
Entry(o) ==
    IF o = "is_empty" THEN "isempty_lock"
    ELSE IF o = "is_full" THEN "isfull_lock"
    ELSE IF o = "push" THEN "push_lock"
    ELSE IF o = "pop" THEN "pop_lock"
    ELSE "peek_lock"

\* The tagged tasks a client may hand to fq_push: those that no push has
\* enqueued and no push in progress holds.  (A task whose push was rejected
\* may be offered again.)
FreeTasks ==
    TaskIds \ ({pushLog[i] : i \in DOMAIN pushLog} \cup {arg[t] : t \in Clients})

MinOf(S) == CHOOSE x \in S : \A y \in S : x <= y

\* A client thread calls one of the queue's operations.  A push hands over
\* the first free tagged task.
Call(t, o, b) ==
    /\ t \in Clients
    /\ pc[t] = "idle"
    /\ o = "push" => FreeTasks # {}
    /\ pc' = [pc EXCEPT ![t] = Entry(o)]
    /\ op' = [op EXCEPT ![t] = o]
    /\ block' = [block EXCEPT ![t] = b]
    /\ arg' = [arg EXCEPT ![t] = IF o = "push" THEN MinOf(FreeTasks) ELSE NoTask]
    /\ ret' = [ret EXCEPT ![t] = PT_SUCCESS]
    /\ UNCHANGED <<qfields, mutex, isflag, out, pool, hist, logs, execCount>>

\* get_and_run, lines 32-34: sched_yield(), then the call
\* fq_pop(tq->fq, &fqe, 1).  fqe keeps what it held.
WorkerCall(t) ==
    /\ t \in Workers
    /\ pc[t] = "yield"
    /\ pc' = [pc EXCEPT ![t] = Entry("pop")]
    /\ op' = [op EXCEPT ![t] = "pop"]
    /\ block' = [block EXCEPT ![t] = 1]
    /\ ret' = [ret EXCEPT ![t] = PT_SUCCESS]
    /\ UNCHANGED <<qfields, mutex, arg, isflag, out, pool,
                   hist, logs, execCount>>

\* The task function returns and the loop goes round (line 37).
TaskReturn(t) ==
    /\ t \in Workers
    /\ pc[t] = "run"
    /\ pc' = [pc EXCEPT ![t] = "yield"]
    /\ UNCHANGED <<qfields, mutex, op, block, arg, ret, isflag, out, pool,
                   hist, logs, execCount>>

\* tq_start: one pthread_create per worker; each may fail, and the workers
\* created run get_and_run.
TqStart ==
    /\ ~started
    /\ started' = TRUE
    /\ \E S \in SUBSET Workers :
          /\ threads' = S
          /\ pc' = [t \in Threads |-> IF t \in S THEN "yield" ELSE pc[t]]
    /\ UNCHANGED <<qfields, mutex, op, block, arg, ret, isflag, out,
                   cancelreq, hist, logs, execCount>>

(* ------------------------------ fq_push ------------------------------- *)

\* Lines 104-109 and 128-135: the branch on the lock call's code.
PushLocked(t, code) ==
    /\ IF code = Ok
       THEN /\ Continue(t, "isfull_lock", ret[t])
            /\ NoteAcq(t, code)
            /\ UNCHANGED <<isflag, out>>
       ELSE Leave(t, LockFailCode(block[t]))
    /\ UNCHANGED <<qfields, pool, logs>>

PushLock(t) ==
    /\ pc[t] = "push_lock"
    /\ \E code \in {Ok, EBUSY} : LockCall(t, code) /\ PushLocked(t, code)

\* Line 116: ++q->size.
PushSize(t) ==
    /\ pc[t] = "push_size"
    /\ size' = size + 1
    /\ Continue(t, "push_back", ret[t])
    /\ UNCHANGED <<max_elements, front, back, elements, mutex, isflag, out,
                   pool, hist, logs>>

\* A push that stores at back without advancing it first.
PushBackStay(t) ==
    /\ pc[t] = "push_back"
    /\ Continue(t, "push_store", ret[t])
    /\ UNCHANGED <<qfields, mutex, isflag, out, pool, hist, logs>>

\* Lines 118-119: ++q->back, wrapped.
PushBack(t) ==
    /\ pc[t] = "push_back"
    /\ back' = Advance(back)
    /\ Continue(t, "push_store", ret[t])
    /\ UNCHANGED <<max_elements, front, size, elements, mutex, isflag, out,
                   pool, hist, logs>>

\* Line 121: q->elements[q->back] = e.
PushStore(t) ==
    /\ pc[t] = "push_store"
    /\ elements' = [i \in DOMAIN elements |->
                       IF i = back THEN arg[t] ELSE elements[i]]
    /\ pushLog' = Append(pushLog, arg[t])
    /\ Continue(t, "push_unlock", ret[t])
    /\ UNCHANGED <<max_elements, front, back, size, mutex, isflag, out,
                   pool, hist, popLog>>

\* A return that does not look at the unlock call's code.
UnlockedUntested(t, code) ==
    /\ Leave(t, ret[t])
    /\ UNCHANGED <<qfields, pool, logs>>

\* Lines 124-127 and 135 (165-168 and 176, 206-209 and 217): the branch on
\* the unlock call's code, and the return.
Unlocked(t, code) ==
    /\ Leave(t, IF code # Ok THEN PT_EPMU ELSE ret[t])
    /\ UNCHANGED <<qfields, pool, logs>>

PushUnlock(t) ==
    /\ pc[t] = "push_unlock"
    /\ mutex' = MutexUnlocked(t)
    /\ Unlocked(t, MutexUnlockCode(t))

(* ------------------------------- fq_pop ------------------------------- *)

\* Lines 144-149 and 169-176.
PopLocked(t, code) ==
    /\ IF code = Ok
       THEN /\ Continue(t, "isempty_lock", ret[t])
            /\ NoteAcq(t, code)
            /\ UNCHANGED <<isflag, out>>
       ELSE Leave(t, LockFailCode(block[t]))
    /\ UNCHANGED <<qfields, pool, logs>>

PopLock(t) ==
    /\ pc[t] = "pop_lock"
    /\ \E code \in {Ok, EBUSY} : LockCall(t, code) /\ PopLocked(t, code)

\* Line 157: --q->size.
PopSize(t) ==
    /\ pc[t] = "pop_size"
    /\ size' = size - 1
    /\ Continue(t, "pop_front", ret[t])
    /\ UNCHANGED <<max_elements, front, back, elements, mutex, isflag, out,
                   pool, hist, logs>>

\* A pop that loads from front without advancing it first.
PopFrontStay(t) ==
    /\ pc[t] = "pop_front"
    /\ Continue(t, "pop_load", ret[t])
    /\ UNCHANGED <<qfields, mutex, isflag, out, pool, hist, logs>>

\* Lines 159-160: ++q->front, wrapped.
PopFront(t) ==
    /\ pc[t] = "pop_front"
    /\ front' = Advance(front)
    /\ Continue(t, "pop_load", ret[t])
    /\ UNCHANGED <<max_elements, back, size, elements, mutex, isflag, out,
                   pool, hist, logs>>

\* Line 162: *e = q->elements[q->front].
PopLoad(t) ==
    /\ pc[t] = "pop_load"
    /\ \E v \in SlotRead(t, front) :
          /\ out' = [out EXCEPT ![t] = v]
          /\ popLog' = Append(popLog, [task |-> v, worker |-> t \in Workers])
    /\ Continue(t, "pop_unlock", ret[t])
    /\ UNCHANGED <<qfields, mutex, isflag, pool, hist, pushLog>>

PopUnlock(t) ==
    /\ pc[t] = "pop_unlock"
    /\ mutex' = MutexUnlocked(t)
    /\ Unlocked(t, MutexUnlockCode(t))

(* ------------------------------ fq_peek ------------------------------- *)

\* Lines 185-190: the code of the lock call is stored in pml, and the test
\* that follows is of ret, which is PT_SUCCESS: the body runs whatever the
\* code was.
PeekLocked(t, code) ==
    /\ Continue(t, "isempty_lock", ret[t])
    /\ NoteAcq(t, code)
    /\ UNCHANGED <<qfields, isflag, out, pool, logs>>

PeekLock(t) ==
    /\ pc[t] = "peek_lock"
    /\ \E code \in {Ok, EBUSY} : LockCall(t, code) /\ PeekLocked(t, code)

\* fq_peek reading the slot at front, the one consumed last.
PeekLoadFront(t) ==
    /\ pc[t] = "peek_load"
    /\ \E v \in SlotRead(t, front) : out' = [out EXCEPT ![t] = v]
    /\ Continue(t, "peek_unlock", ret[t])
    /\ UNCHANGED <<qfields, mutex, isflag, pool, hist, logs>>

\* Lines 198-203: *e = q->elements[tmp].
PeekLoad(t) ==
    /\ pc[t] = "peek_load"
    /\ \E v \in SlotRead(t, Advance(front)) : out' = [out EXCEPT ![t] = v]
    /\ Continue(t, "peek_unlock", ret[t])
    /\ UNCHANGED <<qfields, mutex, isflag, pool, hist, logs>>

PeekUnlock(t) ==
    /\ pc[t] = "peek_unlock"
    /\ mutex' = MutexUnlocked(t)
    /\ Unlocked(t, MutexUnlockCode(t))

(* ---------------------------- fq_is_empty ----------------------------- *)

\* Lines 228-233 and 239-246.  Called by a client, the acquisition is the
\* operation's own; called by fq_pop or fq_peek, a failure leaves the
\* caller's is_empty at its initial 0 and the return value is ignored.
IsEmptyLocked(t, code) ==
    /\ IF code = Ok
       THEN /\ Continue(t, "isempty_read", ret[t])
            /\ IF op[t] = "is_empty" THEN NoteAcq(t, code) ELSE UNCHANGED hist
            /\ UNCHANGED <<isflag, out>>
       ELSE ReturnInner(t, AfterIsEmpty(op[t], isflag[t],
                                        LockFailCode(block[t]), ret[t]))
    /\ UNCHANGED <<qfields, pool, logs>>

IsEmptyLock(t) ==
    /\ pc[t] = "isempty_lock"
    /\ \E code \in {Ok, EBUSY} : LockCall(t, code) /\ IsEmptyLocked(t, code)

\* Line 234: *is_empty = q->size == 0.
IsEmptyRead(t) ==
    /\ pc[t] = "isempty_read"
    /\ LET v == IF QueueEmpty THEN 1 ELSE 0
       IN  IF op[t] = "is_empty"
           THEN out' = [out EXCEPT ![t] = v] /\ UNCHANGED isflag
           ELSE isflag' = [isflag EXCEPT ![t] = v] /\ UNCHANGED out
    /\ Continue(t, "isempty_unlock", ret[t])
    /\ UNCHANGED <<qfields, mutex, pool, hist, logs>>

\* Lines 235-238 and the return to the caller.
IsEmptyUnlocked(t, code) ==
    /\ ReturnInner(t, AfterIsEmpty(op[t], isflag[t],
                                   IF code # Ok THEN PT_EPMU ELSE PT_SUCCESS,
                                   ret[t]))
    /\ UNCHANGED <<qfields, pool, logs>>

IsEmptyUnlock(t) ==
    /\ pc[t] = "isempty_unlock"
    /\ mutex' = MutexUnlocked(t)
    /\ IsEmptyUnlocked(t, MutexUnlockCode(t))

(* ----------------------------- fq_is_full ----------------------------- *)

\* Lines 255-260: as in fq_peek, the test is of ret, not of the lock
\* call's code, and the body runs whatever the code was.
IsFullLocked(t, code) ==
    /\ Continue(t, "isfull_read", ret[t])
    /\ IF op[t] = "is_full" THEN NoteAcq(t, code) ELSE UNCHANGED hist
    /\ UNCHANGED <<qfields, isflag, out, pool, logs>>

IsFullLock(t) ==
    /\ pc[t] = "isfull_lock"
    /\ \E code \in {Ok, EBUSY} : LockCall(t, code) /\ IsFullLocked(t, code)

\* Line 261: *is_empty = q->size == q->max_elements.
IsFullRead(t) ==
    /\ pc[t] = "isfull_read"
    /\ LET v == IF QueueFull THEN 1 ELSE 0
       IN  IF op[t] = "is_full"
           THEN out' = [out EXCEPT ![t] = v] /\ UNCHANGED isflag
           ELSE isflag' = [isflag EXCEPT ![t] = v] /\ UNCHANGED out
    /\ Continue(t, "isfull_unlock", ret[t])
    /\ UNCHANGED <<qfields, mutex, pool, hist, logs>>

\* Lines 263-266 and the return to the caller.
IsFullUnlocked(t, code) ==
    /\ ReturnInner(t, AfterIsFull(op[t], isflag[t],
                                  IF code # Ok THEN PT_EPMU ELSE PT_SUCCESS,
                                  ret[t]))
    /\ UNCHANGED <<qfields, pool, logs>>

IsFullUnlock(t) ==
    /\ pc[t] = "isfull_unlock"
    /\ mutex' = MutexUnlocked(t)
    /\ IsFullUnlocked(t, MutexUnlockCode(t))

(* --------------------------- specification ---------------------------- *)

QueueStep(t) ==
    \/ PushLock(t) \/ PushSize(t) \/ PushBack(t) \/ PushStore(t) \/ PushUnlock(t)
    \/ PopLock(t) \/ PopSize(t) \/ PopFront(t) \/ PopLoad(t) \/ PopUnlock(t)
    \/ PeekLock(t) \/ PeekLoad(t) \/ PeekUnlock(t)
    \/ IsEmptyLock(t) \/ IsEmptyRead(t) \/ IsEmptyUnlock(t)
    \/ IsFullLock(t) \/ IsFullRead(t) \/ IsFullUnlock(t)

Next ==
    \/ \E t \in Clients, o \in QueueOps, b \in {0, 1} : Call(t, o, b)
    \/ \E t \in Threads : QueueStep(t)
    \/ \E t \in Workers : WorkerCall(t) \/ TaskReturn(t)
    \/ TqStart

Spec == Init /\ [][Next]_vars

(* ----------------------- failing lock primitives ---------------------- *)

\* The places where an operation makes its own (outermost) lock call.
OwnLockPc(t) ==
    \/ pc[t] \in {"push_lock", "pop_lock", "peek_lock"}
    \/ pc[t] = "isempty_lock" /\ op[t] = "is_empty"
    \/ pc[t] = "isfull_lock" /\ op[t] = "is_full"

\* The operation's own pthread_mutex_lock or pthread_mutex_trylock call
\* returns an error other than EBUSY and does not take the mutex.
FaultLock(t) ==
    /\ OwnLockPc(t)
    /\ mutex' = mutex
    /\ IF pc[t] = "push_lock" THEN PushLocked(t, EFAULTED)
       ELSE IF pc[t] = "pop_lock" THEN PopLocked(t, EFAULTED)
       ELSE IF pc[t] = "peek_lock" THEN PeekLocked(t, EFAULTED)
       ELSE IF pc[t] = "isempty_lock" THEN IsEmptyLocked(t, EFAULTED)
       ELSE IsFullLocked(t, EFAULTED)

NextFault == Next \/ \E t \in Threads : FaultLock(t)

\* The program with lock calls that may fail.
SpecFault == Init /\ [][NextFault]_vars

\* The pthread_mutex_unlock call that ends fq_push or fq_pop returns an
\* error and the mutex stays as it was, owned by the caller.  Only a
\* release that would have freed the mutex is made to fail, so the hold
\* count stays bounded.
FaultUnlock(t) ==
    /\ pc[t] \in {"push_unlock", "pop_unlock"}
    /\ mutex.owner = t
    /\ mutex.cnt = 1
    /\ mutex' = mutex
    /\ Unlocked(t, EFAULTED)

NextRelease == Next \/ \E t \in Threads : FaultUnlock(t)

\* The program with unlock calls that may fail.
SpecRelease == Init /\ [][NextRelease]_vars

(* ------------------------------ fairness ------------------------------ *)

\* Every thread that can take a step of the call it is in eventually takes
\* it; a thread waiting in pthread_mutex_lock gets the mutex if it is free
\* again and again; every task function returns; a worker goes round its
\* loop.  Clients need not make further calls.
Fairness ==
    /\ \A t \in Threads : SF_vars(QueueStep(t))
    /\ \A t \in Workers : WF_vars(WorkerCall(t) \/ TaskReturn(t))

LiveSpec == Init /\ [][Next]_vars /\ Fairness

(* ------------------------------ tq_stop ------------------------------- *)

\* A thread whose cancellation is acted upon wherever it is.
CancellationPointAnywhere(p) == TRUE

\* The places of get_and_run (lines 30-37) where a pending cancellation
\* request can be acted upon.  The threads are created with default
\* attributes, so cancellation is deferred to a cancellation point;
\* sched_yield and the pthread_mutex_* calls made by fq_pop are not
\* cancellation points, so the only place is inside the task function
\* called at line 35, if that function reaches one.
CancellationPoint(p) == p = "run"

\* tq_stop, lines 80-81: pthread_cancel for every entry of tq->threads.
\* The request stays pending for each worker that was created.  (An entry
\* that no pthread_create has written is an indeterminate pthread_t: the
\* call fails or the process dies, and then the behaviour ends here.)
TqStop ==
    /\ started
    /\ cancelreq # threads
    /\ cancelreq' = threads
    /\ UNCHANGED <<qfields, mutex, pc, op, block, arg, ret, isflag, out,
                   threads, started, hist, logs, execCount>>

\* A worker with a pending request reaches a cancellation point and
\* terminates.  No cleanup handler is installed; nothing else changes.
Cancel(t) ==
    /\ t \in cancelreq
    /\ pc[t] # "dead"
    /\ CancellationPoint(pc[t])
    /\ pc' = [pc EXCEPT ![t] = "dead"]
    /\ UNCHANGED <<qfields, mutex, op, block, arg, ret, isflag, out,
                   pool, hist, logs, execCount>>

NextStop == Next \/ TqStop \/ \E t \in Workers : Cancel(t)

\* The program with tq_stop.
SpecStop == Init /\ [][NextStop]_vars

(* ------------------------------ claims -------------------------------- *)

\* The tasks whose push has taken effect, and those a pop has returned.
Pushed == {pushLog[i] : i \in DOMAIN pushLog}
PoppedBy(w) == {popLog[i].task : i \in {j \in DOMAIN popLog : popLog[j].worker = w}}

\* Thread t is in a call whose own lock call returned 0 and whose final
\* unlock is still to come.
InSection(t) == acq[t] = "ok"

\* The places where the next step writes size, front, back or a slot.
WritePcs == {"push_size", "push_back", "push_store", "pop_size", "pop_front"}

\* C1: in every reachable state, under every interleaving of blocking and
\* non-blocking pushes and pops of the client and the workers, the count
\* is at least 0 and at most the capacity.
C1_CountInRange == 0 <= size /\ size <= max_elements

\* C1 witness: a push holding the lock has found a queue of capacity 2
\* full while a worker waits for the lock.
C1_Witness ==
    \E t \in Threads, w \in Workers :
        /\ pc[t] = "push_unlock" /\ ret[t] = PT_EFQFULL
        /\ size = max_elements /\ max_elements = 2
        /\ pc[w] = "pop_lock"

\* C2: FIFO delivery: the i-th task a pop returns is the task the i-th
\* push that took effect was given; no pop returns a slot that is stale
\* or was never written.
C2_Fifo ==
    /\ Len(popLog) <= Len(pushLog)
    /\ \A i \in DOMAIN popLog : popLog[i].task = pushLog[i]

\* C2 witness: three pops have returned tasks from a queue of capacity 2,
\* so pushes and pops were interleaved and both indices have wrapped.
C2_Witness == max_elements = 2 /\ Len(popLog) >= 3 /\ front = 1 /\ back = 1

\* C3: no task is invoked more than once; nothing is invoked that is not
\* a task whose push took effect and that a worker's pop returned; a task
\* that a client's pop returned is never invoked.
C3_ExecutedOnce ==
    /\ execCount[NoTask] = 0
    /\ \A k \in TaskIds :
          /\ execCount[k] <= 1
          /\ execCount[k] >= 1 => k \in Pushed /\ k \in PoppedBy(TRUE)
          /\ k \in PoppedBy(FALSE) => execCount[k] = 0

\* C3 witness: one task has been invoked by a worker and another has been
\* taken by a client's pop.
C3_Witness ==
    /\ \E k \in TaskIds : execCount[k] = 1
    /\ PoppedBy(FALSE) # {}

\* C5: a push, blocking or not, that acquires the lock while the count
\* equals the capacity returns PT_EFQFULL, and from the acquisition to the
\* return the count, front, back and every slot are as they were.
C5_PushFull ==
    [][\A t \in Threads :
          (op[t] = "push" /\ InSection(t) /\ preSize[t] = max_elements) =>
              /\ QState' = pre[t]
              /\ op'[t] = "none" => ret'[t] = PT_EFQFULL]_vars

\* C5 witness: a non-blocking push that acquired the lock of a full queue
\* of capacity 2 is about to release it.
C5_Witness ==
    \E t \in Threads :
        /\ op[t] = "push" /\ block[t] = 0 /\ InSection(t)
        /\ preSize[t] = max_elements /\ max_elements = 2
        /\ pc[t] = "push_unlock"

\* C6: a pop, blocking or not, that acquires the lock while the count is 0
\* returns PT_EFQEMPTY, never writes the caller's output, and from the
\* acquisition to the return the count, front, back and every slot are as
\* they were.
C6_PopEmpty ==
    [][\A t \in Threads :
          (op[t] = "pop" /\ InSection(t) /\ preSize[t] = 0) =>
              /\ QState' = pre[t]
              /\ out'[t] = out[t]
              /\ op'[t] = "none" => ret'[t] = PT_EFQEMPTY]_vars

\* C6 witness: a worker that still holds the task of an earlier pop has
\* acquired the lock of the emptied queue and is about to release it.
C6_Witness ==
    \E t \in Workers :
        /\ op[t] = "pop" /\ InSection(t) /\ preSize[t] = 0
        /\ pc[t] = "pop_unlock" /\ out[t] \in TaskIds

\* C7: a step of fq_peek never changes the count, front, back or a slot;
\* a peek that acquired the lock of a non-empty queue returns PT_SUCCESS
\* with the task the next pop returns (the oldest task not yet popped),
\* and one that acquired the lock of an empty queue returns PT_EFQEMPTY.
C7_Peek ==
    [][\A t \in Threads :
          (op[t] = "peek" /\ pc'[t] # pc[t]) =>
              /\ UNCHANGED <<size, front, back, elements>>
              /\ (InSection(t) /\ op'[t] = "none") =>
                    IF preSize[t] = 0
                    THEN ret'[t] = PT_EFQEMPTY /\ out[t] = NoOut
                    ELSE /\ ret'[t] = PT_SUCCESS
                         /\ Len(popLog) < Len(pushLog)
                         /\ out[t] = pushLog[Len(popLog) + 1]]_vars

\* C7 witness: a peek holding the lock has read the oldest task of a queue
\* whose front has already advanced.
C7_Witness ==
    \E t \in Threads :
        /\ op[t] = "peek" /\ InSection(t) /\ pc[t] = "peek_unlock"
        /\ out[t] \in TaskIds /\ Len(popLog) >= 1 /\ size = 2

\* C8: a thread about to write the count, front, back or a slot owns the
\* mutex; a thread between its own successful lock call and its final
\* unlock owns the mutex, so no two threads are there at once.
C8_MutualExclusion ==
    /\ \A t \in Threads : (pc[t] \in WritePcs \/ InSection(t)) => mutex.owner = t
    /\ \A t1, t2 \in Threads : (InSection(t1) /\ InSection(t2)) => t1 = t2

\* C8 witness: a push is about to store its task while a worker waits in
\* pthread_mutex_lock and another is between two calls.
C8_Witness ==
    \E t \in Clients, w \in Workers :
        pc[t] = "push_store" /\ pc[w] = "pop_lock" /\ mutex.owner = t

\* C9: a non-blocking fq_peek or fq_is_full whose own trylock finds the
\* mutex owned by another thread returns PT_EPMTL in that step: it has
\* read no field of the queue, written nothing to its output and made no
\* unlock call.
C9_TryFailReturns ==
    [][\A t \in Threads :
          (/\ op[t] \in {"peek", "is_full"} /\ OwnLockPc(t)
           /\ block[t] = 0 /\ ~MutexFreeFor(t)
           /\ pc'[t] # pc[t]) =>
              /\ op'[t] = "none"
              /\ ret'[t] = PT_EPMTL
              /\ out'[t] = NoOut]_vars

\* C10: a non-blocking fq_push, fq_pop or fq_is_empty whose own lock call
\* is made while another thread owns the mutex can take its step at once;
\* a step in which that lock call fails returns in that same step, with
\* PT_EPMTL when non-blocking and PT_EPML when blocking, and changes
\* neither the count, front, back, a slot nor the caller's output.
C10_AcquireFails ==
    [][\A t \in Threads :
          (op[t] \in {"push", "pop", "is_empty"} /\ OwnLockPc(t)) =>
              /\ (block[t] = 0 /\ ~MutexFreeFor(t)) =>
                    ENABLED (PushLock(t) \/ PopLock(t) \/ IsEmptyLock(t))
              /\ (pc'[t] # pc[t] /\ (mutex' = mutex \/ ~MutexFreeFor(t))) =>
                    /\ op'[t] = "none"
                    /\ ret'[t] = IF block[t] = 0 THEN PT_EPMTL ELSE PT_EPML
                    /\ out'[t] = out[t]
                    /\ UNCHANGED <<size, front, back, elements, mutex>>]_vars

\* C10 witness: the client's non-blocking call has returned PT_EPMTL and a
\* worker's blocking pop has returned PT_EPML, while the queue holds a
\* task.
C10_Witness ==
    \E c \in Clients, w \in Workers :
        /\ pc[c] = "idle" /\ ret[c] = PT_EPMTL
        /\ pc[w] = "yield" /\ ret[w] = PT_EPML
        /\ size >= 1

\* C4 as stated: once a worker has been started, every task whose push
\* succeeded is eventually executed by some worker.
C4_EveryPushedTaskRuns ==
    \A k \in TaskIds :
        (k \in Pushed /\ threads # {}) ~> (execCount[k] >= 1)

\* C4: once a worker has been started, every task whose push succeeded is
\* eventually executed by some worker, unless a pop made by a thread that
\* is not a worker has removed it from the queue.
C4_PushedTaskRunsUnlessTaken ==
    \A k \in TaskIds :
        (k \in Pushed /\ threads # {}) ~>
            (execCount[k] >= 1 \/ k \in PoppedBy(FALSE))

\* C4 witness: with a worker running, two pushed tasks have been executed
\* by workers and a third pushed task is still in the queue.
C4_Witness ==
    /\ threads # {}
    /\ \E j, k, l \in Pushed :
          /\ j # k /\ execCount[j] = 1 /\ execCount[k] = 1
          /\ execCount[l] = 0 /\ l \notin PoppedBy(FALSE) /\ l \notin PoppedBy(TRUE)
    /\ size = 1

BodyPcs == WritePcs \cup {"pop_load"}

C13_ReleaseFails ==
    [][\A t \in Threads :
          (/\ pc[t] \in {"push_unlock", "pop_unlock"} /\ pc'[t] # pc[t]
           /\ mutex.owner = t /\ mutex' = mutex) =>
              /\ op'[t] = "none" /\ ret'[t] = PT_EPMU
              /\ UNCHANGED <<size, front, back, elements, pushLog, popLog>>
              /\ (op[t] = "push" /\ preSize[t] < max_elements) =>
                    /\ size = pre[t].size + 1
                    /\ back = Advance(pre[t].back) /\ front = pre[t].front
                    /\ elements[back] = arg[t]
                    /\ pushLog[Len(pushLog)] = arg[t]
              /\ (op[t] = "pop" /\ preSize[t] > 0) =>
                    /\ size = pre[t].size - 1
                    /\ front = Advance(pre[t].front) /\ back = pre[t].back
                    /\ out[t] = pre[t].elements[front] /\ out[t] \in TaskIds
                    /\ popLog[Len(popLog)].task = out[t]
                    /\ t \in Workers => out'[t] = out[t]]_vars

\* C13 witness: after an earlier pop by a worker, the client's push of a
\* further task has returned PT_EPMU; the task is in the queue and the
\* client still owns the mutex.
C13_Witness ==
    \E c \in Clients :
        /\ pc[c] = "idle" /\ ret[c] = PT_EPMU /\ mutex.owner = c
        /\ Len(popLog) >= 1 /\ size >= 1
        /\ elements[back] = pushLog[Len(pushLog)]

\* A bound on the number of steps a call at place p has still to take.
StepsLeft(p) ==
    CASE p \in {"push_lock", "pop_lock", "peek_lock"} -> 9
      [] p \in {"isfull_lock", "isempty_lock"} -> 8
      [] p \in {"isfull_read", "isempty_read"} -> 7
      [] p \in {"isfull_unlock", "isempty_unlock"} -> 6
      [] p \in {"push_size", "pop_size"} -> 5
      [] p \in {"push_back", "pop_front"} -> 4
      [] p \in {"push_store", "pop_load", "peek_load"} -> 3
      [] p \in {"push_unlock", "pop_unlock", "peek_unlock"} -> 1
      [] OTHER -> 0

\* Thread t is in pthread_mutex_lock, called by the operation itself,
\* while another thread owns the mutex.
WaitsForLock(t) == OwnLockPc(t) /\ block[t] # 0 /\ ~MutexFreeFor(t)

\* C14: a thread inside a queue operation can always take its next step,
\* whatever the count is and whatever the other threads do, unless it is
\* waiting in the operation's own blocking lock call for the mutex; and
\* every step it can take returns or brings it closer to returning, so
\* once the lock is acquired the call ends after a bounded number of its
\* own steps.
C14_NoWaitForContents ==
    \A t \in Threads :
        op[t] # "none" =>
            /\ WaitsForLock(t) \/ ENABLED QueueStep(t)
            /\ ~ENABLED (/\ QueueStep(t)
                         /\ op'[t] # "none"
                         /\ StepsLeft(pc'[t]) >= StepsLeft(pc[t]))

\* C14 witness: with no worker created and nothing ever popped, a blocking
\* push that acquired the lock of a full queue of capacity 2 has been
\* rejected and is about to release the lock.
C14_Witness ==
    \E c \in Clients :
        /\ threads = {} /\ popLog = <<>>
        /\ size = max_elements /\ max_elements = 2
        /\ op[c] = "push" /\ block[c] = 1 /\ InSection(c)
        /\ pc[c] = "push_unlock" /\ ret[c] = PT_EFQFULL

\* C15: a worker that is executing a task does not own the mutex, and no
\* other thread is kept from going on by it: a thread inside a queue
\* operation can take its next step, or waits for a mutex whose owner is
\* itself inside a queue operation and not in a task.
C15_NoLockInTask ==
    \A w \in Workers :
        pc[w] = "run" =>
            /\ mutex.owner # w
            /\ \A t \in Threads \ {w} :
                  op[t] # "none" =>
                      \/ ENABLED QueueStep(t)
                      \/ /\ WaitsForLock(t)
                         /\ op[mutex.owner] # "none"
                         /\ ENABLED QueueStep(mutex.owner)

\* C15 witness: while one worker is executing the first task, the other
\* worker owns the mutex in a pop that has taken the second task, and the
\* client has stored a third task in the meantime.
C15_Witness ==
    \E w, v \in Workers :
        /\ pc[w] = "run" /\ out[w] = pushLog[1]
        /\ Len(pushLog) = 3 /\ Len(popLog) = 2
        /\ pc[v] = "pop_unlock" /\ mutex.owner = v /\ out[v] = pushLog[2]

\* C16: with capacity at least 1, every operation that acquired the lock
\* returns what the conventional FIFO with head, tail and count returned
\* for the same operation applied at the acquisition: the same outcome,
\* for a pop or a peek the same task, for is_empty and is_full the same
\* flag; and between operations the two queues hold the same number of
\* tasks.
C16_SameAsConventional ==
    [][max_elements >= 1 =>
          \A t \in Threads :
              (op[t] # "none" /\ op'[t] = "none" /\ InSection(t)) =>
                  /\ ret'[t] = refOut[t].ret
                  /\ (op[t] \in {"pop", "peek"} /\ ret'[t] = PT_SUCCESS) =>
                        out[t] = refOut[t].val
                  /\ op[t] \in {"is_empty", "is_full"} => out[t] = refOut[t].val
                  /\ size = ref.count]_vars

\* C16 witness: after two pops from a queue of capacity 2, a peek holding
\* the lock has read the task the conventional FIFO peeked, the two
\* queues keeping their tasks in different slots.
C16_Witness ==
    \E t \in Threads :
        /\ max_elements = 2 /\ Len(popLog) >= 2
        /\ op[t] = "peek" /\ InSection(t) /\ pc[t] = "peek_unlock"
        /\ out[t] \in TaskIds /\ out[t] = refOut[t].val
        /\ ref.store # elements

\* C17 as stated: on a fresh queue of any capacity of at least 1, the
\* first push that takes effect has advanced back to 1, stores its task
\* in slot 1 and leaves slot 0 unwritten.
C17_FirstPushAtOne ==
    [][\A t \in Threads :
          (/\ max_elements >= 1 /\ pushLog = <<>>
           /\ pc[t] = "push_store" /\ pc'[t] # pc[t]) =>
              /\ back = 1
              /\ elements'[1] = arg[t]
              /\ elements'[0] = NoTask]_vars

\* C17: on a fresh queue of capacity at least 2, the first push that
\* takes effect has advanced back to 1, stores its task in slot 1 and
\* leaves slot 0 unwritten; slot 0 is written only by a later push, one
\* whose advance of back has wrapped to 0.  With capacity 1 the advance
\* wraps at once: back is 0 again and the first push stores in slot 0.
\* Only the store of a push changes a slot.
C17_FirstPushIndexing ==
    [][/\ elements' # elements =>
             \E t \in Threads : pc[t] = "push_store" /\ pc'[t] = "push_unlock"
       /\ \A t \in Threads :
             (pc[t] = "push_store" /\ pc'[t] # pc[t]) =>
                 /\ (max_elements >= 2 /\ pushLog = <<>>) =>
                       /\ back = 1
                       /\ elements'[1] = arg[t]
                       /\ elements'[0] = NoTask
                 /\ (max_elements >= 2 /\ elements'[0] # elements[0]) =>
                       /\ back = 0
                       /\ Len(pushLog) >= max_elements - 1
                       /\ (Len(pushLog) + 1) % max_elements = 0
                 /\ (max_elements = 1 /\ pushLog = <<>>) =>
                       /\ back = 0
                       /\ elements'[0] = arg[t]]_vars

\* C17 witness: on a queue of capacity 2 the first task is in slot 1 and
\* the second push, whose back wrapped to 0, has stored its task in
\* slot 0.
C17_Witness ==
    /\ max_elements = 2 /\ Len(pushLog) = 2 /\ back = 0
    /\ elements[1] = pushLog[1] /\ elements[0] = pushLog[2]

\* No thread is between the lock call and the final unlock of a push or
\* pop that acquired the mutex.
NoneInPushPop == \A t \in Threads : ~(op[t] \in {"push", "pop"} /\ InSection(t))

\* The slots front+1 .. front+count, wrapped.
LiveSlots == {(front + i) % max_elements : i \in 1..size}

\* C18: with capacity N of at least 1, whenever no push or pop is inside
\* its locked section, front and back are in 0..N-1, back - front and the
\* count are equal modulo N, front equals back exactly when the count is 0
\* or N, and the tasks pushed and not yet popped are, oldest first, in the
\* slots front+1 .. front+count (wrapped) and in no other slot.
C18_IndexInvariant ==
    (max_elements >= 1 /\ NoneInPushPop) =>
        /\ front \in 0..(max_elements - 1)
        /\ back \in 0..(max_elements - 1)
        /\ (back - front) % max_elements = size % max_elements
        /\ (front = back) <=> (size = 0 \/ size = max_elements)
        /\ size = Len(pushLog) - Len(popLog)
        /\ Cardinality(LiveSlots) = size
        /\ \A i \in 1..size :
              elements[(front + i) % max_elements] = pushLog[Len(popLog) + i]
        /\ \A j \in DOMAIN elements \ LiveSlots :
              \A i \in 1..size : elements[j] # pushLog[Len(popLog) + i]

\* C18 witness: with no operation in its locked section, a queue of
\* capacity 2 holds one task in slot 0 after back has wrapped and front
\* has advanced to 1, slot 1 still holding the task already popped.
C18_Witness ==
    /\ NoneInPushPop /\ mutex.owner = NoThread
    /\ max_elements = 2 /\ size = 1 /\ front = 1 /\ back = 0
    /\ elements[0] = pushLog[2] /\ elements[1] = popLog[1].task

\* The places of the nested fq_is_empty or fq_is_full call at which its
\* own acquisition is held.
NestedPcs == {"isempty_read", "isempty_unlock", "isfull_read", "isfull_unlock"}

\* The number of acquisitions thread t has made and not yet released when
\* it owns the mutex: one, and two inside the nested call of a push, pop
\* or peek that acquired the mutex itself.
Held(t) ==
    IF InSection(t) /\ op[t] \in {"push", "pop", "peek"} /\ pc[t] \in NestedPcs
    THEN 2 ELSE 1

\* C19: the mutex is owned only by a thread inside a queue operation, as
\* many times as that operation has acquired it and not yet released it;
\* an operation that acquired it owns it until its final unlock; no step
\* of a thread changes a mutex that another thread owns; so the mutex is
\* free whenever no operation is in flight.
C19_LockBalance ==
    /\ (mutex.cnt = 0) <=> (mutex.owner = NoThread)
    /\ (\A t \in Threads : op[t] = "none") => mutex.owner = NoThread
    /\ \A t \in Threads :
          /\ mutex.owner = t => (op[t] # "none" /\ mutex.cnt = Held(t))
          /\ InSection(t) => mutex.owner = t
          /\ ~ENABLED (/\ QueueStep(t) \/ FaultLock(t)
                       /\ mutex' # mutex
                       /\ mutex.owner \notin {NoThread, t})

\* C19 witness: a worker owns the mutex twice, inside the fq_is_empty
\* call of its pop, while the client's peek, whose own lock call failed,
\* is at its unlock call.
C19_Witness ==
    \E c \in Clients, w \in Workers :
        /\ op[w] = "pop" /\ pc[w] = "isempty_read"
        /\ mutex.owner = w /\ mutex.cnt = 2
        /\ op[c] = "peek" /\ acq[c] = "fail" /\ pc[c] = "peek_unlock"

\* C20: every task that a worker's pop has removed from the queue has
\* been invoked by a worker once that pop has returned, also when the pop
\* returned PT_EPMU after removing the task; and nothing is invoked that
\* a worker's pop did not remove, nor invoked twice.
C20_NoLostTask ==
    /\ \A k \in PoppedBy(TRUE) :
          \/ execCount[k] >= 1
          \/ \E w \in Workers : op[w] = "pop" /\ out[w] = k
    /\ execCount[NoTask] = 0
    /\ \A k \in TaskIds : execCount[k] <= 1 /\ (execCount[k] = 1 => k \in PoppedBy(TRUE))

====
